---- MODULE Spec2Model ----
(***************************************************************************)
(* Video-generation orchestration of ai-avatar-system.                     *)
(*                                                                         *)
(*   - utils/retry.ts            withRetry                  (SpecRetry)    *)
(*   - utils/validation.ts       validateScript(OrThrow)                   *)
(*   - services/videoGenerationService.ts                                  *)
(*                               VideoGenerationService.generateVideo      *)
(*                               with progress snapshots    (SpecSync)     *)
(*   - app/api/generate-video    POST, generateVideoAsync,                 *)
(*                               generateLipSyncVideo       (SpecAsync)    *)
(*   - services/video-generation.service.ts + DatabaseService              *)
(*                               generateVideo(scriptId)    (SpecDb)       *)
(***************************************************************************)
EXTENDS Integers, Sequences, FiniteSets, TLC

VARIABLES
    rt,         \* the running withRetry call (utils/retry.ts)
    svc,        \* one VideoGenerationService.generateVideo(script) call
    snapshots,  \* the ProgressState snapshots handed to config.onProgress
    videos,     \* the 'videos' table behind the generate-video route
    run,        \* per record: the generateVideoAsync call started by POST
    scripts,    \* DatabaseService.scripts (the in-memory Map)
    job,        \* per caller: a VideoGenerationService.generateVideo(scriptId) call
    env,        \* process.env: which API keys are configured
    call        \* one call of a pure function of utils/validation.ts or of the service

vars == <<rt, svc, snapshots, videos, run, scripts, job, env, call>>

(***************************************************************************)
(* Bounds of the model.                                                    *)
(***************************************************************************)
\* largest maxRetries a caller of withRetry passes in SpecRetry
MaxRetriesBound == 3

(***************************************************************************)
(* types/errors.ts                                                         *)
(***************************************************************************)
ApiErrorType ==
    {"OPENAI_ERROR", "DID_ERROR", "CREDIT_INSUFFICIENT", "VALIDATION_ERROR",
     "NETWORK_ERROR", "UNKNOWN_ERROR"}

\* A message is a sequence of words; a thrown value is a record.
\* cls = "VGE": a VideoGenerationError; cls = "Error": any other Error;
\* cls = "none": no error (undefined).
VideoGenerationError(message, type, retryable) ==
    [cls |-> "VGE", type |-> type, retryable |-> retryable, msg |-> message, status |-> 0]

PlainError(message) ==
    [cls |-> "Error", type |-> "none", retryable |-> FALSE, msg |-> message, status |-> 0]

NoError == [cls |-> "none", type |-> "none", retryable |-> FALSE, msg |-> <<>>, status |-> 0]

EnvAllSet == [OPENAI_API_KEY |-> TRUE, DID_API_KEY |-> TRUE]

IsVGE(e) == e.cls = "VGE"

ERROR_MESSAGES(type) == <<"ERROR_MESSAGES", type>>

(***************************************************************************)
(* utils/validation.ts                                                     *)
(*                                                                         *)
(* A script is known by its shape: `lead` whitespace characters, then      *)
(* `core` characters that start and end with a non-whitespace character,   *)
(* then `trail` whitespace characters. script.length = lead + core + trail *)
(* and script.trim().length = core. A script of whitespace only has        *)
(* core = 0 and carries all of it in `lead`.                               *)
(***************************************************************************)
MAX_SCRIPT_LENGTH == 5000

\* the literal 10 of the minimum-length rule
MIN_SCRIPT_LENGTH == 10

Script(lead, core, trail) == [lead |-> lead, core |-> core, trail |-> trail]

ScriptLength(script) == script.lead + script.core + script.trail

TrimLength(script) == script.core

\* the three messages pushed by validateScript
MsgEmpty == <<"script-must-not-be-empty">>
MsgTooLong(length) == <<"script-must-not-exceed", ToString(MAX_SCRIPT_LENGTH), "current", ToString(length)>>
MsgTooShort == <<"script-must-be-at-least", ToString(MIN_SCRIPT_LENGTH)>>

\* (mutation of validateScript: the minimum-length rule rejects 10 characters too)
validateScript_MinInclusive(script) ==
    LET e1 == IF ScriptLength(script) = 0 \/ TrimLength(script) = 0
              THEN <<MsgEmpty>> ELSE <<>>
        e2 == IF ScriptLength(script) > MAX_SCRIPT_LENGTH
              THEN <<MsgTooLong(ScriptLength(script))>> ELSE <<>>
        e3 == IF TrimLength(script) > 0 /\ TrimLength(script) <= MIN_SCRIPT_LENGTH
              THEN <<MsgTooShort>> ELSE <<>>
        errors == e1 \o e2 \o e3
    IN  [isValid |-> Len(errors) = 0, errors |-> errors]

\* lines 21-43; errors is the list of messages, in the order pushed
validateScript(script) ==
    LET e1 == IF ScriptLength(script) = 0 \/ TrimLength(script) = 0
              THEN <<MsgEmpty>> ELSE <<>>
        e2 == IF ScriptLength(script) > MAX_SCRIPT_LENGTH
              THEN <<MsgTooLong(ScriptLength(script))>> ELSE <<>>
        e3 == IF TrimLength(script) > 0 /\ TrimLength(script) < MIN_SCRIPT_LENGTH
              THEN <<MsgTooShort>> ELSE <<>>
        errors == e1 \o e2 \o e3
    IN  [isValid |-> Len(errors) = 0, errors |-> errors]

\* Array.prototype.join(' ') over messages
RECURSIVE JoinWithSpace(_)
JoinWithSpace(list) ==
    IF Len(list) = 0 THEN <<>>
    ELSE IF Len(list) = 1 THEN list[1]
    ELSE list[1] \o <<" ">> \o JoinWithSpace(Tail(list))

\* (mutation of validateScriptOrThrow: the messages are joined without a separator)
validateScriptOrThrow_NoSeparator(script) ==
    LET result == validateScript(script)
        joined == IF Len(result.errors) = 2 THEN result.errors[1] \o result.errors[2]
                  ELSE JoinWithSpace(result.errors)
    IN  IF ~result.isValid
        THEN VideoGenerationError(joined, "VALIDATION_ERROR", FALSE)
        ELSE NoError

\* lines 50-60: what validateScriptOrThrow throws (NoError when it returns)
validateScriptOrThrow(script) ==
    LET result == validateScript(script)
    IN  IF ~result.isValid
        THEN VideoGenerationError(JoinWithSpace(result.errors), "VALIDATION_ERROR", FALSE)
        ELSE NoError

SampleScripts ==
    {Script(l, c, t) : l \in {0, 1}, c \in {0, 9, 10, 16, 4999, 5000, 5001}, t \in {0, 1}}
        \ {Script(l, 0, 1) : l \in {0, 1}}

\* the scripts handed to the validator: leading whitespace, trimmed text,
\* trailing whitespace, around the limits 10 and 5000
ValidationInputs ==
    {Script(l, c, t) : l \in {0, 1, 2, 5000, 5001},
                       c \in {0, 1, 9, 10, 11, 16, 4998, 4999, 5000, 5001},
                       t \in 0 .. 2}
        \ {Script(l, 0, t) : l \in {0, 1, 2, 5000, 5001}, t \in 1 .. 2}

NoValidation == [isValid |-> FALSE, errors |-> <<>>]

\* no pure function is being called
CallIdle ==
    [pc |-> "idle", script |-> Script(0, 0, 0), result |-> NoValidation,
     thrown |-> NoError]

\* validateScript(script) is called and returns (lines 21-43)
CallValidateScript ==
    /\ call.pc = "script"
    /\ call' = [call EXCEPT !.pc = "validated", !.result = validateScript(call.script)]
    /\ UNCHANGED <<rt, svc, snapshots, videos, run, scripts, job, env>>

\* validateScriptOrThrow(script) is called and returns or throws (lines 50-60)
CallValidateScriptOrThrow ==
    /\ call.pc = "validated"
    /\ call' = [call EXCEPT !.pc = "checked", !.thrown = validateScriptOrThrow(call.script)]
    /\ UNCHANGED <<rt, svc, snapshots, videos, run, scripts, job, env>>

(***************************************************************************)
(* utils/retry.ts                                                          *)
(***************************************************************************)
DEFAULT_RETRY_CONFIG ==
    [maxRetries |-> 3, retryDelay |-> 1000, exponentialBackoff |-> TRUE]

RECURSIVE Pow2(_)
Pow2(n) == IF n <= 0 THEN 1 ELSE 2 * Pow2(n - 1)

\* (mutation of NotRetryable: the retryable flag is never looked at)
NotRetryable_FlagIgnored(e) == FALSE

\* line 43: a VideoGenerationError that is not retryable is thrown again at once
NotRetryable(e) == IsVGE(e) /\ ~e.retryable

\* (mutation of RetriesExhausted: the budget is counted one short)
RetriesExhausted_OffByOne(attempt, config) == attempt + 1 >= config.maxRetries

\* line 48: the attempt that just failed was the last one
RetriesExhausted(attempt, config) == attempt = config.maxRetries

\* (mutation of RetryDelayFor: the delay grows linearly)
RetryDelayFor_Linear(attempt, config) ==
    IF config.exponentialBackoff
    THEN config.retryDelay * (attempt + 1)
    ELSE config.retryDelay

\* lines 53-55
RetryDelayFor(attempt, config) ==
    IF config.exponentialBackoff
    THEN config.retryDelay * Pow2(attempt)
    ELSE config.retryDelay

\* line 62: throw lastError || new Error('Retry failed')
RetryFinalError(lastError) ==
    IF lastError = NoError THEN PlainError(<<"Retry", "failed">>) ELSE lastError

\* An outcome of one invocation of fn: fulfilled with val, or rejected with err.
Fulfilled(v) == [ok |-> TRUE, val |-> v, err |-> NoError]
Rejected(e) == [ok |-> FALSE, val |-> "none", err |-> e]

RtIdle ==
    [pc |-> "idle", op |-> "none", config |-> DEFAULT_RETRY_CONFIG, attempt |-> 0,
     lastError |-> NoError, calls |-> <<>>, sleeps |-> <<>>,
     result |-> "none", thrown |-> NoError]

\* lines 30-36: the call of withRetry(fn, config), up to the first loop test
RtStarted(op, config) ==
    LET r == [RtIdle EXCEPT !.op = op, !.config = config]
    IN  IF 0 <= config.maxRetries
        THEN [r EXCEPT !.pc = "call"]
        ELSE [r EXCEPT !.pc = "rejected", !.thrown = RetryFinalError(NoError)]

\* (mutation of RtAfterCall: the value of a fulfilled fn() is not returned, the
\* loop goes on)
RtAfterCall_NoReturn(r, o) ==
    LET called == [r EXCEPT !.calls = Append(@, o)]
    IN  IF r.attempt = r.config.maxRetries
        THEN [called EXCEPT !.pc = "rejected", !.thrown = RetryFinalError(o.err)]
        ELSE [called EXCEPT !.pc = "sleep"]

\* lines 37-56: fn() was invoked and settled with outcome o
RtAfterCall(r, o) ==
    LET called == [r EXCEPT !.calls = Append(@, o)]
    IN  IF o.ok
        THEN [called EXCEPT !.pc = "resolved", !.result = o.val]
        ELSE LET failed == [called EXCEPT !.lastError = o.err]
             IN  IF NotRetryable(o.err)
                 THEN [failed EXCEPT !.pc = "rejected", !.thrown = o.err]
                 ELSE IF RetriesExhausted(r.attempt, r.config)
                 THEN [failed EXCEPT !.pc = "rejected",
                                     !.thrown = RetryFinalError(o.err)]
                 ELSE [failed EXCEPT !.pc = "sleep"]

\* lines 57-58 and the loop's attempt++ and test (line 36)
RtAfterSleep(r) ==
    LET slept == [r EXCEPT
                    !.sleeps = Append(@, [after |-> Len(r.calls),
                                          ms |-> RetryDelayFor(r.attempt, r.config)]),
                    !.attempt = @ + 1]
    IN  IF slept.attempt <= slept.config.maxRetries
        THEN [slept EXCEPT !.pc = "call"]
        ELSE [slept EXCEPT !.pc = "rejected",
                           !.thrown = RetryFinalError(slept.lastError)]

RtSettled(r) == r.pc \in {"resolved", "rejected"}

\* the sleep(delay) of line 58 elapses
RetrySleep ==
    /\ rt.pc = "sleep"
    /\ rt' = RtAfterSleep(rt)
    /\ UNCHANGED <<svc, snapshots, videos, run, scripts, job, env, call>>

(***************************************************************************)
(* withRetry on its own: fn is any operation, its outcomes are free.       *)
(***************************************************************************)
SampleValues == {"success", "other"}

SampleErrors ==
    {PlainError(<<"temporary", "error">>),
     PlainError(<<"persistent", "error">>),
     VideoGenerationError(<<"network", "error">>, "NETWORK_ERROR", TRUE),
     VideoGenerationError(<<"validation", "error">>, "VALIDATION_ERROR", FALSE)}

SampleOutcomes ==
    {Fulfilled(v) : v \in SampleValues} \cup {Rejected(e) : e \in SampleErrors}

SampleConfigs ==
    [maxRetries : -1 .. MaxRetriesBound, retryDelay : {1000, 250},
     exponentialBackoff : BOOLEAN]

\* a caller invokes withRetry(fn, config)
RetryCallFn ==
    /\ rt.pc = "call" /\ rt.op = "fn"
    /\ \E o \in SampleOutcomes : rt' = RtAfterCall(rt, o)
    /\ UNCHANGED <<svc, snapshots, videos, run, scripts, job, env, call>>

(***************************************************************************)
(* types/progress.ts                                                       *)
(***************************************************************************)
ProgressStep == {"VALIDATING", "GENERATING_AUDIO", "GENERATING_VIDEO", "COMPLETED", "ERROR"}

PROGRESS_STEPS(step) ==
    CASE step = "VALIDATING"       -> [progress |-> 10,  message |-> <<"msg", "VALIDATING">>]
      [] step = "GENERATING_AUDIO" -> [progress |-> 30,  message |-> <<"msg", "GENERATING_AUDIO">>]
      [] step = "GENERATING_VIDEO" -> [progress |-> 70,  message |-> <<"msg", "GENERATING_VIDEO">>]
      [] step = "COMPLETED"        -> [progress |-> 100, message |-> <<"msg", "COMPLETED">>]
      [] step = "ERROR"            -> [progress |-> 0,   message |-> <<"msg", "ERROR">>]

(***************************************************************************)
(* services/videoGenerationService.ts: VideoGenerationService              *)
(***************************************************************************)
\* String.prototype.toLowerCase, word by word
ToLowerCase(word) ==
    CASE word = "Timeout" -> "timeout"
      [] word = "Network" -> "network"
      [] word = "Rate"    -> "rate"
      [] word = "Limit"   -> "limit"
      [] word = "OpenAI"  -> "openai"
      [] word = "D-ID"    -> "d-id"
      [] word = "API"     -> "api"
      [] word = "Error"   -> "error"
      [] OTHER            -> word

LowerCased(message) == [i \in 1 .. Len(message) |-> ToLowerCase(message[i])]

\* String.prototype.includes: pattern occurs as consecutive words of message
Includes(message, pattern) ==
    \E i \in 0 .. Len(message) - Len(pattern) :
        \A k \in 1 .. Len(pattern) : message[i + k] = pattern[k]

\* line 190
retryableMessages == {<<"timeout">>, <<"network">>, <<"5xx">>, <<"rate", "limit">>}

\* lines 183-194
isRetryableError(error, type) ==
    IF type = "CREDIT_INSUFFICIENT" \/ type = "VALIDATION_ERROR"
    THEN FALSE
    ELSE \E msg \in retryableMessages : Includes(LowerCased(error.msg), msg)

\* lines 165-175; a thrown value that is no Error becomes new Error(String(error))
createApiError(error, type) ==
    LET originalError == IF error.cls = "String" THEN PlainError(error.msg) ELSE error
    IN  VideoGenerationError(ERROR_MESSAGES(type), type, isRetryableError(originalError, type))

\* lines 201-207
getErrorMessage(error) ==
    IF IsVGE(error) THEN error.msg ELSE ERROR_MESSAGES("UNKNOWN_ERROR")

\* lines 79-87: generateAudio, given how callOpenAIAPI settled
generateAudio(response) ==
    IF response.ok THEN Fulfilled(response.val)
    ELSE Rejected(createApiError(response.err, "OPENAI_ERROR"))

\* lines 94-102: generateVideoFromAudio, given how callDIDAPI settled
generateVideoFromAudio(response) ==
    IF response.ok THEN Fulfilled(response.val)
    ELSE Rejected(createApiError(response.err, "DID_ERROR"))

\* a thrown value that is a string, not an Error
ThrownString(message) ==
    [cls |-> "String", type |-> "none", retryable |-> FALSE, msg |-> message, status |-> 0]

\* how callOpenAIAPI can settle (lines 109-120, and the remote API it stands for)
OpenAIResponses ==
    {Fulfilled("audio.mp3"),
     Rejected(PlainError(<<"OpenAI", "API", "Error">>)),
     Rejected(PlainError(<<"Rate", "Limit", "exceeded">>)),
     Rejected(ThrownString(<<"timeout">>))}

\* how callDIDAPI can settle (lines 127-138, and the remote API it stands for)
DIDResponses ==
    {Fulfilled("video.mp4"),
     Rejected(PlainError(<<"D-ID", "API", "Error">>)),
     Rejected(PlainError(<<"network", "timeout">>))}

\* what a throwing onProgress callback throws
ObserverError == PlainError(<<"observer", "failed">>)

\* lines 148-154: the snapshot updateProgress builds
ProgressState(step, error) ==
    [currentStep |-> step, progress |-> PROGRESS_STEPS(step).progress,
     message |-> PROGRESS_STEPS(step).message, error |-> error]

SvcIdle ==
    [pc |-> "idle", script |-> Script(0, 0, 0), attached |-> FALSE,
     audioUrl |-> "none", videoUrl |-> "none", error |-> NoError,
     result |-> [videoUrl |-> "none", audioUrl |-> "none"], remote |-> <<>>,
     caught |-> NoError]

\* no VideoGenerationService has been constructed
SvcOff == [SvcIdle EXCEPT !.pc = "off"]

\* generateVideo(script) is called (line 41)
SvcGenerateVideo ==
    /\ svc.pc = "idle"
    /\ \E script \in SampleScripts : svc' = [svc EXCEPT !.pc = "L46", !.script = script]
    /\ UNCHANGED <<rt, snapshots, videos, run, scripts, job, env, call>>

\* lines 145-157: updateProgress(step) at position `at` of the try block; when
\* onProgress is configured it is called and may throw, which enters the catch
SvcUpdateProgress(at, step, next) ==
    /\ svc.pc = at
    /\ IF ~svc.attached
       THEN /\ svc' = [svc EXCEPT !.pc = next]
            /\ UNCHANGED snapshots
       ELSE /\ snapshots' = Append(snapshots, ProgressState(step, <<>>))
            /\ \/ svc' = [svc EXCEPT !.pc = next]
               \/ svc' = [svc EXCEPT !.pc = "L69", !.error = ObserverError]
    /\ UNCHANGED <<rt, videos, run, scripts, job, env, call>>

\* line 46
SvcProgressValidating == SvcUpdateProgress("L46", "VALIDATING", "L47")

\* line 47
SvcValidate ==
    /\ svc.pc = "L47"
    /\ LET thrown == validateScriptOrThrow(svc.script)
       IN  svc' = IF thrown = NoError
                  THEN [svc EXCEPT !.pc = "L50"]
                  ELSE [svc EXCEPT !.pc = "L69", !.error = thrown]
    /\ UNCHANGED <<rt, snapshots, videos, run, scripts, job, env, call>>

\* line 50
SvcProgressAudio == SvcUpdateProgress("L50", "GENERATING_AUDIO", "L51")

\* line 51: withRetry(() => this.generateAudio(script)) is called
SvcStartAudio ==
    /\ svc.pc = "L51"
    /\ rt' = RtStarted("generateAudio", DEFAULT_RETRY_CONFIG)
    /\ svc' = [svc EXCEPT !.pc = "L51await"]
    /\ UNCHANGED <<snapshots, videos, run, scripts, job, env, call>>

\* (mutation of SvcCallOpenAI: a retried attempt emits the snapshot of its phase again)
SvcCallOpenAI_ReEmits ==
    /\ svc.pc = "L51await" /\ rt.pc = "call" /\ rt.op = "generateAudio"
    /\ \E response \in OpenAIResponses : rt' = RtAfterCall(rt, generateAudio(response))
    /\ svc' = [svc EXCEPT !.remote = Append(@, "openai")]
    /\ snapshots' = IF svc.attached /\ rt.attempt > 0
                    THEN Append(snapshots, ProgressState("GENERATING_AUDIO", <<>>))
                    ELSE snapshots
    /\ UNCHANGED <<videos, run, scripts, job, env, call>>

\* withRetry invokes generateAudio, which calls callOpenAIAPI (lines 79-87)
SvcCallOpenAI ==
    /\ svc.pc = "L51await" /\ rt.pc = "call" /\ rt.op = "generateAudio"
    /\ \E response \in OpenAIResponses : rt' = RtAfterCall(rt, generateAudio(response))
    /\ svc' = [svc EXCEPT !.remote = Append(@, "openai")]
    /\ UNCHANGED <<snapshots, videos, run, scripts, job, env, call>>

\* line 51: the await settles
SvcAudioSettled ==
    /\ svc.pc = "L51await" /\ RtSettled(rt)
    /\ svc' = IF rt.pc = "resolved"
              THEN [svc EXCEPT !.pc = "L54", !.audioUrl = rt.result]
              ELSE [svc EXCEPT !.pc = "L69", !.error = rt.thrown]
    /\ rt' = RtIdle
    /\ UNCHANGED <<snapshots, videos, run, scripts, job, env, call>>

\* (mutation of SvcProgressVideo: the snapshot of the video phase is not emitted)
SvcProgressVideo_NotEmitted ==
    /\ svc.pc = "L54"
    /\ svc' = [svc EXCEPT !.pc = "L55"]
    /\ UNCHANGED <<rt, snapshots, videos, run, scripts, job, env, call>>

\* line 54
SvcProgressVideo == SvcUpdateProgress("L54", "GENERATING_VIDEO", "L55")

\* line 55: withRetry(() => this.generateVideoFromAudio(audioUrl)) is called
SvcStartVideo ==
    /\ svc.pc = "L55"
    /\ rt' = RtStarted("generateVideoFromAudio", DEFAULT_RETRY_CONFIG)
    /\ svc' = [svc EXCEPT !.pc = "L55await"]
    /\ UNCHANGED <<snapshots, videos, run, scripts, job, env, call>>

\* withRetry invokes generateVideoFromAudio, which calls callDIDAPI (lines 94-102)
SvcCallDID ==
    /\ svc.pc = "L55await" /\ rt.pc = "call" /\ rt.op = "generateVideoFromAudio"
    /\ \E response \in DIDResponses :
          rt' = RtAfterCall(rt, generateVideoFromAudio(response))
    /\ svc' = [svc EXCEPT !.remote = Append(@, "did")]
    /\ UNCHANGED <<snapshots, videos, run, scripts, job, env, call>>

\* line 55: the await settles
SvcVideoSettled ==
    /\ svc.pc = "L55await" /\ RtSettled(rt)
    /\ svc' = IF rt.pc = "resolved"
              THEN [svc EXCEPT !.pc = "L58", !.videoUrl = rt.result]
              ELSE [svc EXCEPT !.pc = "L69", !.error = rt.thrown]
    /\ rt' = RtIdle
    /\ UNCHANGED <<snapshots, videos, run, scripts, job, env, call>>

\* line 58
SvcProgressCompleted == SvcUpdateProgress("L58", "COMPLETED", "L62")

\* lines 60-66: the result is returned (the elapsed time is the clock's)
SvcReturn ==
    /\ svc.pc = "L62"
    /\ svc' = [svc EXCEPT !.pc = "resolved",
                          !.result = [videoUrl |-> svc.videoUrl, audioUrl |-> svc.audioUrl]]
    /\ UNCHANGED <<rt, snapshots, videos, run, scripts, job, env, call>>

\* lines 68-71: the catch block; the error it caught is thrown again unless
\* onProgress itself throws, and then that error leaves generateVideo
SvcCatch ==
    /\ svc.pc = "L69"
    /\ IF ~svc.attached
       THEN /\ svc' = [svc EXCEPT !.pc = "rejected", !.caught = svc.error]
            /\ UNCHANGED snapshots
       ELSE /\ snapshots' = Append(snapshots,
                                   ProgressState("ERROR", getErrorMessage(svc.error)))
            /\ \/ svc' = [svc EXCEPT !.pc = "rejected", !.caught = svc.error]
               \/ svc' = [svc EXCEPT !.pc = "rejected", !.caught = svc.error,
                                     !.error = ObserverError]
    /\ UNCHANGED <<rt, videos, run, scripts, job, env, call>>

InitRest ==
    /\ svc = SvcIdle
    /\ snapshots = <<>>
    /\ videos = <<>>
    /\ run = <<>>
    /\ scripts = <<>>
    /\ job = <<>>
    /\ env = EnvAllSet
    /\ call = CallIdle

InitRetry ==
    /\ \E c \in SampleConfigs : rt = RtStarted("fn", c)
    /\ InitRest

NextRetry == RetryCallFn \/ RetrySleep

SpecRetry == InitRetry /\ [][NextRetry]_vars

\* a script is handed to validateScript and to validateScriptOrThrow
InitValidation ==
    /\ \E script \in ValidationInputs : call = [CallIdle EXCEPT !.pc = "script", !.script = script]
    /\ rt = RtIdle
    /\ svc = SvcOff
    /\ snapshots = <<>>
    /\ videos = <<>>
    /\ run = <<>>
    /\ scripts = <<>>
    /\ job = <<>>
    /\ env = EnvAllSet

NextValidation == CallValidateScript \/ CallValidateScriptOrThrow

SpecValidation == InitValidation /\ [][NextValidation]_vars

(***************************************************************************)
(* app/api/generate-video/route.ts: POST, generateVideoAsync,              *)
(* generateAudio, generateLipSyncVideo                                     *)
(*                                                                         *)
(* A supabase update resolves with {data, error} and does not throw; the   *)
(* route never reads the result. An update of a row that exists is applied,*)
(* an update of a row that does not exist changes nothing.                 *)
(***************************************************************************)
DID_AVATAR_CONFIG ==
    [primary |-> "alice.jpg", fallbacks |-> <<"amy.jpg", "anna.jpg">>]

\* maxAttempts of the polling loop (60 in the source); the loop is the same for
\* every value, the model runs it with this one
maxAttempts == 3

\* an AxiosError; status 0: no response was received (timeout, network)
AxiosError(status) ==
    [cls |-> "AxiosError", type |-> "none", retryable |-> FALSE,
     msg |-> <<"axios", ToString(status)>>, status |-> status]

NoRecord ==
    [exists |-> FALSE, status |-> "none", video_url |-> <<>>, duration |-> 0,
     error_message |-> <<>>]

\* lines 427-433: the row POST inserts
NewVideoRecord ==
    [exists |-> TRUE, status |-> "pending", video_url |-> <<>>, duration |-> 0,
     error_message |-> <<>>]

\* last: how the latest status request of the job settled
LipIdle ==
    [pc |-> "idle", avatar |-> "none", attempts |-> 0, videoUrl |-> <<>>,
     thrown |-> NoError, last |-> "none"]

RunIdle ==
    [pc |-> "none", http |-> 0, content |-> Script(0, 0, 0), avatarUrl |-> "undefined",
     currentAvatar |-> "none", fallbackIndex |-> 0, audio |-> "none",
     videoUrl |-> <<>>, error |-> NoError, tts |-> 0, polls |-> 0, tries |-> <<>>,
     lip |-> LipIdle]

\* request bodies: content and avatarUrl ("undefined": not given)
SampleContents == {Script(0, 0, 0), Script(2, 0, 0), Script(0, 5, 0), Script(0, 16, 0)}

SampleAvatarUrls == {"undefined", "", "custom.jpg", "amy.jpg"}

\* how openai.audio.speech.create can settle
SpeechResponses ==
    {Fulfilled("audio"), Rejected(PlainError(<<"OpenAI", "request", "failed">>))}

\* how axios.post to /talks can settle
CreateResponses ==
    {Fulfilled("talk")}
        \cup {Rejected(AxiosError(st)) : st \in {0, 400, 429, 500, 503}}
        \cup {Rejected(PlainError(<<"unexpected">>))}

\* how a status request settled: the status of the document, or "failure"
Settled(response) == IF response.ok THEN response.status ELSE "failure"

\* how axios.get of /talks/{id} can settle: a status document, or a failure
StatusDocument(status, url, info) ==
    [ok |-> TRUE, status |-> status, result_url |-> url, error |-> info]

PollResponses(avatar) ==
    {StatusDocument("created", <<>>, FALSE),
     StatusDocument("processing", <<>>, FALSE),
     StatusDocument("done", <<"result_url", avatar>>, FALSE),
     StatusDocument("done", <<>>, FALSE),
     StatusDocument("error", <<>>, TRUE),
     StatusDocument("error", <<>>, FALSE),
     StatusDocument("rejected", <<>>, FALSE),
     [ok |-> FALSE, status |-> "none", result_url |-> <<>>, error |-> FALSE]}

\* line 465
FirstAvatar(avatarUrl) ==
    IF avatarUrl = "undefined" \/ avatarUrl = "" THEN DID_AVATAR_CONFIG.primary ELSE avatarUrl

\* lines 413-455: POST. 400 when scriptId or content is missing; 500 when the
\* insert fails; otherwise the row is inserted with status pending and
\* generateVideoAsync is started, which runs up to its first await (line 470)
Post(v) ==
    /\ run[v].pc = "none" /\ run[v].http = 0
    /\ \E scriptIdGiven \in BOOLEAN, content \in SampleContents,
          avatarUrl \in SampleAvatarUrls, inserted \in BOOLEAN :
          IF ~scriptIdGiven \/ ScriptLength(content) = 0
          THEN /\ run' = [run EXCEPT ![v].http = 400, ![v].content = content,
                                       ![v].avatarUrl = avatarUrl]
               /\ UNCHANGED videos
          ELSE IF ~inserted
          THEN /\ run' = [run EXCEPT ![v].http = 500, ![v].content = content,
                                       ![v].avatarUrl = avatarUrl]
               /\ UNCHANGED videos
          ELSE /\ videos' = [videos EXCEPT ![v] = NewVideoRecord]
               /\ run' = [run EXCEPT ![v] =
                            [RunIdle EXCEPT !.pc = "L470", !.http = 200,
                                            !.content = content, !.avatarUrl = avatarUrl,
                                            !.currentAvatar = FirstAvatar(avatarUrl),
                                            !.fallbackIndex = 0]]
    /\ UNCHANGED <<rt, svc, snapshots, scripts, job, env, call>>

\* (mutation of UpdateVideo: the update is not filtered by id)
UpdateVideo_NoFilter(table, v, fields) ==
    [w \in DOMAIN table |->
        IF table[w].exists
        THEN [f \in DOMAIN table[w] |->
                 IF f \in DOMAIN fields THEN fields[f] ELSE table[w][f]]
        ELSE table[w]]

\* .update(fields).eq('id', v)
UpdateVideo(table, v, fields) ==
    IF table[v].exists
    THEN [table EXCEPT ![v] = [f \in DOMAIN table[v] |->
                                  IF f \in DOMAIN fields THEN fields[f] ELSE table[v][f]]]
    ELSE table

\* lines 470-473
RunSetProcessing(v) ==
    /\ run[v].pc = "L470"
    /\ videos' = UpdateVideo(videos, v, [status |-> "processing"])
    /\ run' = [run EXCEPT ![v].pc = "L477"]
    /\ UNCHANGED <<rt, svc, snapshots, scripts, job, env, call>>

\* lines 558-575: generateAudio
RunGenerateAudio(v) ==
    /\ run[v].pc = "L477"
    /\ IF ~env.OPENAI_API_KEY
       THEN run' = [run EXCEPT ![v].pc = "L536",
                      ![v].error = PlainError(<<"OpenAI", "API", "Key", "is", "not", "configured">>)]
       ELSE \E response \in SpeechResponses :
              run' = [run EXCEPT
                        ![v].tts = @ + 1,
                        ![v].pc = IF response.ok THEN "L489" ELSE "L536",
                        ![v].audio = response.val,
                        ![v].error = response.err]
    /\ UNCHANGED <<rt, svc, snapshots, videos, scripts, job, env, call>>

\* lines 584-621: generateLipSyncVideo is called with the current avatar (line
\* 489 for the first image, line 504 for a fallback); without an API key it
\* throws at once, otherwise the create request is sent
LipStarted(avatar, didKey) ==
    IF ~didKey
    THEN [LipIdle EXCEPT !.pc = "rejected", !.avatar = avatar,
            !.thrown = VideoGenerationError(
                <<"D-ID", "API", "Key", "is", "not", "configured">>, "DID_ERROR", FALSE)]
    ELSE [LipIdle EXCEPT !.pc = "create", !.avatar = avatar]

RunStartLipSync(v) ==
    /\ run[v].pc \in {"L489", "L504"}
    /\ run[v].lip.pc = "idle"
    /\ run' = [run EXCEPT ![v].lip = LipStarted(run[v].currentAvatar, env.DID_API_KEY)]
    /\ UNCHANGED <<rt, svc, snapshots, videos, scripts, job, env, call>>

\* line 734: the retryable flag of a failed request
AxiosRetryable(status) == status = 429 \/ status = 503

\* lines 709-746: the outer catch of generateLipSyncVideo
LipOuterCatch(error) ==
    IF IsVGE(error) THEN error
    ELSE IF error.cls = "AxiosError"
    THEN VideoGenerationError(<<"D-ID", "API", "request", "failed">> \o error.msg,
                              "DID_ERROR", AxiosRetryable(error.status))
    ELSE VideoGenerationError(<<"Unexpected", "error", "during", "video", "generation">>,
                              "UNKNOWN_ERROR", FALSE)

\* lines 602-629: the create request settles
LipCreate(v) ==
    /\ run[v].lip.pc = "create"
    /\ \E response \in CreateResponses :
          run' = [run EXCEPT ![v].lip =
                    IF response.ok
                    THEN [@ EXCEPT !.pc = "poll", !.attempts = 0]
                    ELSE [@ EXCEPT !.pc = "rejected", !.thrown = LipOuterCatch(response.err)]]
    /\ UNCHANGED <<rt, svc, snapshots, videos, scripts, job, env, call>>

\* lines 699-706: after the loop
LipAfterLoop(lip) ==
    IF lip.videoUrl = <<>>
    THEN [lip EXCEPT !.pc = "rejected",
            !.thrown = LipOuterCatch(VideoGenerationError(
                <<"Video", "generation", "timed", "out", "after",
                  ToString(maxAttempts * 10), "seconds">>, "DID_ERROR", TRUE))]
    ELSE [lip EXCEPT !.pc = "resolved"]

\* line 636: the loop test, and what follows the loop when it fails
LipLoopTest(lip) ==
    IF lip.attempts < maxAttempts THEN lip ELSE LipAfterLoop(lip)

\* lines 636-697: one iteration of the polling loop, given how the status
\* request settled
LipAfterPoll(lip, response) ==
    IF ~response.ok
    THEN LipLoopTest([lip EXCEPT !.attempts = @ + 1])
    ELSE IF response.status = "done"
    THEN IF response.result_url = <<>>
         THEN [lip EXCEPT !.pc = "rejected",
                 !.thrown = LipOuterCatch(VideoGenerationError(
                     <<"D-ID", "API", "returned", "success", "but", "no", "video", "URL">>,
                     "DID_ERROR", TRUE))]
         ELSE LipAfterLoop([lip EXCEPT !.videoUrl = response.result_url])
    ELSE IF response.status = "error" \/ response.status = "rejected"
    THEN [lip EXCEPT !.pc = "rejected",
            !.thrown = LipOuterCatch(VideoGenerationError(
                <<"D-ID", "video", "generation", "failed">>
                    \o (IF response.error THEN <<"kind", "description">>
                        ELSE <<"Video", "generation", response.status>>),
                "DID_ERROR", FALSE))]
    ELSE LipLoopTest([lip EXCEPT !.attempts = @ + 1])

\* polls made by the attempts of a run, the one under way included
RECURSIVE SumPolls(_)
SumPolls(tries) ==
    IF tries = <<>> THEN 0 ELSE Head(tries).polls + SumPolls(Tail(tries))

LipPoll(v) ==
    /\ run[v].lip.pc = "poll"
    /\ \E response \in PollResponses(run[v].lip.avatar) :
          run' = [run EXCEPT ![v].lip = LipAfterPoll([@ EXCEPT !.last = Settled(response)],
                                                     response),
                             ![v].polls = @ + 1]
    /\ UNCHANGED <<rt, svc, snapshots, videos, scripts, job, env, call>>

\* line 491: the first image failed; are the fallbacks tried?
TryFallbacks(error, fallbackIndex) ==
    IsVGE(error) /\ error.retryable /\ fallbackIndex < Len(DID_AVATAR_CONFIG.fallbacks)

\* line 508: the fallback that failed was the last one
FallbacksExhausted(fallbackIndex) == fallbackIndex >= Len(DID_AVATAR_CONFIG.fallbacks)

\* (mutation of NextFallback: the list of fallbacks is walked from its end)
NextFallback_FromEnd(r) ==
    [r EXCEPT !.currentAvatar =
                  DID_AVATAR_CONFIG.fallbacks[Len(DID_AVATAR_CONFIG.fallbacks) - r.fallbackIndex],
              !.fallbackIndex = @ + 1,
              !.pc = "L504", !.lip = LipIdle]

\* lines 499-500
NextFallback(r) ==
    [r EXCEPT !.currentAvatar = DID_AVATAR_CONFIG.fallbacks[r.fallbackIndex + 1],
              !.fallbackIndex = @ + 1,
              !.pc = "L504", !.lip = LipIdle]

\* how an attempt ended, for the record of attempts
TryOutcome(lip) ==
    IF lip.pc = "resolved" THEN "ok"
    ELSE IF IsVGE(lip.thrown) /\ lip.thrown.retryable THEN "retryable"
    ELSE "permanent"

\* lines 488-516: generateLipSyncVideo settled, for the first image (await of
\* line 489) or for a fallback (await of line 504)
RunAfterLipSync(r) ==
    LET tried == [r EXCEPT !.tries = Append(@, [image |-> r.lip.avatar,
                                                outcome |-> TryOutcome(r.lip),
                                                polls |-> r.polls - SumPolls(r.tries)])]
    IN  IF r.lip.pc = "resolved"
        THEN [tried EXCEPT !.videoUrl = r.lip.videoUrl, !.pc = "L520", !.lip = LipIdle]
        ELSE IF r.pc = "L489"
        THEN IF TryFallbacks(r.lip.thrown, r.fallbackIndex)
             THEN NextFallback(tried)
             ELSE [tried EXCEPT !.pc = "L536", !.error = r.lip.thrown, !.lip = LipIdle]
        ELSE IF FallbacksExhausted(r.fallbackIndex)
             THEN [tried EXCEPT !.pc = "L536", !.error = r.lip.thrown, !.lip = LipIdle]
             ELSE NextFallback(tried)

RunLipSyncSettled(v) ==
    /\ run[v].pc \in {"L489", "L504"}
    /\ run[v].lip.pc \in {"resolved", "rejected"}
    /\ run' = [run EXCEPT ![v] = RunAfterLipSync(run[v])]
    /\ UNCHANGED <<rt, svc, snapshots, videos, scripts, job, env, call>>

\* line 519
EstimatedDuration(content) == ScriptLength(content) \div 5

\* lines 518-534: the update of the success path
CompletedFields(r) ==
    [status |-> "completed", video_url |-> r.videoUrl,
     duration |-> EstimatedDuration(r.content)]

RunPersistCompleted(v) ==
    /\ run[v].pc = "L520"
    /\ videos' = UpdateVideo(videos, v, CompletedFields(run[v]))
    /\ run' = [run EXCEPT ![v].pc = "done"]
    /\ UNCHANGED <<rt, svc, snapshots, scripts, job, env, call>>

\* lines 540-545: errorMessage
FailureMessage(error) ==
    IF error.cls \in {"VGE", "Error", "AxiosError"} THEN error.msg
    ELSE <<"video", "generation", "failed">>

\* lines 535-555: the catch block
FailedFields(r) ==
    [status |-> "failed", error_message |-> FailureMessage(r.error)]

RunPersistFailed(v) ==
    /\ run[v].pc = "L536"
    /\ videos' = UpdateVideo(videos, v, FailedFields(run[v]))
    /\ run' = [run EXCEPT ![v].pc = "done"]
    /\ UNCHANGED <<rt, svc, snapshots, scripts, job, env, call>>

VideoIds == {"v1"}

InitAsync ==
    /\ videos = [v \in VideoIds |-> NoRecord]
    /\ run = [v \in VideoIds |-> RunIdle]
    /\ env \in [OPENAI_API_KEY : BOOLEAN, DID_API_KEY : BOOLEAN]
    /\ call = CallIdle
    /\ rt = RtIdle
    /\ svc = SvcOff
    /\ snapshots = <<>>
    /\ scripts = <<>>
    /\ job = <<>>

NextAsync ==
    \/ \E v \in DOMAIN run : Post(v)
    \/ \E v \in DOMAIN run : RunSetProcessing(v)
    \/ \E v \in DOMAIN run : RunGenerateAudio(v)
    \/ \E v \in DOMAIN run : RunStartLipSync(v)
    \/ \E v \in DOMAIN run : LipCreate(v)
    \/ \E v \in DOMAIN run : LipPoll(v)
    \/ \E v \in DOMAIN run : RunLipSyncSettled(v)
    \/ \E v \in DOMAIN run : RunPersistCompleted(v)
    \/ \E v \in DOMAIN run : RunPersistFailed(v)

SpecAsync == InitAsync /\ [][NextAsync]_vars

\* Two requests served at once: POST is called once or twice, each call inserts
\* its own row and starts its own generateVideoAsync; the awaits of the runs
\* interleave freely. Most status requests a run makes in this specification:
ConcurrentPolls == 2

\* the requests of this specification carry a script and no avatarUrl
ConcurrentWithin ==
    \A v \in DOMAIN run :
        /\ run[v].polls <= ConcurrentPolls
        /\ run[v].content \in {RunIdle.content, Script(0, 16, 0)}
        /\ run[v].avatarUrl = "undefined"

InitConcurrent ==
    /\ \E ids \in {{"v1"}, {"v1", "v2"}} :
          /\ videos = [v \in ids |-> NoRecord]
          /\ run = [v \in ids |-> RunIdle]
    /\ env = EnvAllSet
    /\ call = CallIdle
    /\ rt = RtIdle
    /\ svc = SvcOff
    /\ snapshots = <<>>
    /\ scripts = <<>>
    /\ job = <<>>

NextConcurrent ==
    \/ \E v \in DOMAIN run : Post(v) /\ ConcurrentWithin'
    \/ \E v \in DOMAIN run : RunSetProcessing(v)
    \/ \E v \in DOMAIN run : RunGenerateAudio(v)
    \/ \E v \in DOMAIN run : RunStartLipSync(v)
    \/ \E v \in DOMAIN run : LipCreate(v)
    \/ \E v \in DOMAIN run : LipPoll(v) /\ ConcurrentWithin'
    \/ \E v \in DOMAIN run : RunLipSyncSettled(v)
    \/ \E v \in DOMAIN run : RunPersistCompleted(v)
    \/ \E v \in DOMAIN run : RunPersistFailed(v)

SpecConcurrent == InitConcurrent /\ [][NextConcurrent]_vars

(***************************************************************************)
(* The earlier variant of the route (lines 749-924 of the same file): POST, *)
(* generateVideoAsync without fallbacks, generateAudio, generateLipSyncVideo *)
(***************************************************************************)
LegacyIdle == [RunIdle EXCEPT !.pc = "K765"]

\* lines 765-807: POST
LegacyPost(v) ==
    /\ run[v].pc = "K765" /\ run[v].http = 0
    /\ \E scriptIdGiven \in BOOLEAN, content \in SampleContents, inserted \in BOOLEAN :
          IF ~scriptIdGiven \/ ScriptLength(content) = 0
          THEN /\ run' = [run EXCEPT ![v].http = 400, ![v].content = content]
               /\ UNCHANGED videos
          ELSE IF ~inserted
          THEN /\ run' = [run EXCEPT ![v].http = 500, ![v].content = content]
               /\ UNCHANGED videos
          ELSE /\ videos' = [videos EXCEPT ![v] = NewVideoRecord]
               /\ run' = [run EXCEPT ![v].pc = "K812", ![v].http = 200,
                                     ![v].content = content]
    /\ UNCHANGED <<rt, svc, snapshots, scripts, job, env, call>>

\* lines 812-815
LegacySetProcessing(v) ==
    /\ run[v].pc = "K812"
    /\ videos' = UpdateVideo(videos, v, [status |-> "processing"])
    /\ run' = [run EXCEPT ![v].pc = "K819"]
    /\ UNCHANGED <<rt, svc, snapshots, scripts, job, env, call>>

\* line 819 and lines 850-858: generateAudio
LegacyGenerateAudio(v) ==
    /\ run[v].pc = "K819"
    /\ \E response \in SpeechResponses :
          run' = [run EXCEPT ![v].tts = @ + 1,
                             ![v].pc = IF response.ok THEN "K826" ELSE "K842",
                             ![v].audio = response.val,
                             ![v].error = response.err]
    /\ UNCHANGED <<rt, svc, snapshots, videos, scripts, job, env, call>>

\* line 826 and lines 860-891: generateLipSyncVideo up to the create request,
\* whose failure is thrown as it is
LegacyCreate(v) ==
    /\ run[v].pc = "K826"
    /\ IF ~env.DID_API_KEY
       THEN run' = [run EXCEPT ![v].pc = "K842",
                      ![v].error = PlainError(<<"D-ID", "API", "Key", "is", "not", "configured">>)]
       ELSE \E response \in CreateResponses :
              run' = [run EXCEPT
                        ![v].pc = IF response.ok THEN "K894" ELSE "K842",
                        ![v].error = response.err,
                        ![v].tries = Append(@, [image |-> "default", polls |-> 0,
                                                outcome |-> "started"])]
    /\ UNCHANGED <<rt, svc, snapshots, videos, scripts, job, env, call>>

\* lines 918-922: after the loop
LegacyAfterLoop(r) ==
    IF r.videoUrl = <<>>
    THEN [r EXCEPT !.pc = "K842",
                   !.error = PlainError(<<"Video", "generation", "timed", "out">>)]
    ELSE [r EXCEPT !.pc = "K829"]

\* lines 894-916: one iteration of the polling loop, given how the status
\* request settled; a failed request is thrown as it is
LegacyAfterPoll(r, response) ==
    IF ~response.ok
    THEN [r EXCEPT !.pc = "K842", !.error = AxiosError(0)]
    ELSE IF response.status = "done"
    THEN LegacyAfterLoop([r EXCEPT !.videoUrl = response.result_url])
    ELSE IF response.status = "error" \/ response.status = "rejected"
    THEN [r EXCEPT !.pc = "K842",
            !.error = PlainError(<<"D-ID", "video", "generation", "failed",
                                   response.status>>)]
    ELSE IF r.lip.attempts + 1 < maxAttempts
    THEN [r EXCEPT !.lip.attempts = @ + 1]
    ELSE LegacyAfterLoop([r EXCEPT !.lip.attempts = @ + 1])

LegacyPoll(v) ==
    /\ run[v].pc = "K894"
    /\ \E response \in PollResponses("default") :
          run' = [run EXCEPT ![v] = LegacyAfterPoll([@ EXCEPT !.polls = @ + 1], response)]
    /\ UNCHANGED <<rt, svc, snapshots, videos, scripts, job, env, call>>

\* lines 829-836: the update of the success path
LegacyPersistCompleted(v) ==
    /\ run[v].pc = "K829"
    /\ videos' = UpdateVideo(videos, v, CompletedFields(run[v]))
    /\ run' = [run EXCEPT ![v].pc = "done"]
    /\ UNCHANGED <<rt, svc, snapshots, scripts, job, env, call>>

\* lines 843-846: the update of the catch block
LegacyFailedFields == [status |-> "failed"]

\* lines 839-847: the catch block
LegacyPersistFailed(v) ==
    /\ run[v].pc = "K842"
    /\ videos' = UpdateVideo(videos, v, LegacyFailedFields)
    /\ run' = [run EXCEPT ![v].pc = "done"]
    /\ UNCHANGED <<rt, svc, snapshots, scripts, job, env, call>>

\* lines 754-763: the module is loaded (new OpenAI needs its key)
InitLegacy ==
    /\ run = [v \in VideoIds |-> LegacyIdle]
    /\ videos = [v \in VideoIds |-> NoRecord]
    /\ env \in {[OPENAI_API_KEY |-> TRUE, DID_API_KEY |-> d] : d \in BOOLEAN}
    /\ call = CallIdle
    /\ rt = RtIdle
    /\ svc = SvcOff
    /\ snapshots = <<>>
    /\ scripts = <<>>
    /\ job = <<>>

NextLegacy ==
    \/ \E v \in DOMAIN run : LegacyPost(v)
    \/ \E v \in DOMAIN run : LegacySetProcessing(v)
    \/ \E v \in DOMAIN run : LegacyGenerateAudio(v)
    \/ \E v \in DOMAIN run : LegacyCreate(v)
    \/ \E v \in DOMAIN run : LegacyPoll(v)
    \/ \E v \in DOMAIN run : LegacyPersistCompleted(v)
    \/ \E v \in DOMAIN run : LegacyPersistFailed(v)

\* the background path of POST /api/generate-video, in either variant
InitBackground == InitAsync \/ InitLegacy

NextBackground == NextAsync \/ NextLegacy

SpecBackground == InitBackground /\ [][NextBackground]_vars

(***************************************************************************)
(* services/video-generation.service.ts: VideoGenerationService            *)
(* .generateVideo(scriptId, onProgress), over DatabaseService (the         *)
(* in-memory Map) and DIDVideoService                                      *)
(***************************************************************************)
\* maxAttempts of DIDVideoService.waitForVideoCompletion (30 by default in the
\* source); the loop is the same for every value, the model runs it with this one
waitMaxAttempts == 3

NoScript == [exists |-> FALSE, status |-> "none", videoUrl |-> <<>>]

\* lines 225-238 of videoGenerationService.ts: the ScriptData of createScript
NewScript == [exists |-> TRUE, status |-> "pending", videoUrl |-> <<>>]

ScriptNotFound(id) == PlainError(<<"Script", "not", "found", id>>)

\* tts: the calls of ttsService made by the run (generateVideo makes none, line 49)
JobIdle ==
    [pc |-> "idle", scriptId |-> "none", attached |-> FALSE, talk |-> "none",
     attempt |-> 0, videoUrl |-> <<>>, error |-> NoError, result |-> "none",
     events |-> <<>>, remote |-> 0, tts |-> 0, last |-> "none"]

\* generateVideo(scriptId, onProgress) is called (line 34)
JobGenerateVideo(c) ==
    /\ job[c].pc = "idle"
    /\ \E id \in DOMAIN scripts \cup {"invalid-id"}, attached \in BOOLEAN :
          job' = [job EXCEPT ![c] = [JobIdle EXCEPT !.pc = "L40", !.scriptId = id,
                                                    !.attached = attached]]
    /\ UNCHANGED <<rt, svc, snapshots, videos, run, scripts, env, call>>

\* DatabaseService.getScript (lines 245-248)
getScript(map, id) == IF id \in DOMAIN map /\ map[id].exists THEN map[id] ELSE NoScript

\* lines 40-43
JobGetScript(c) ==
    /\ job[c].pc = "L40"
    /\ job' = [job EXCEPT ![c] =
                 IF getScript(scripts, job[c].scriptId).exists
                 THEN [@ EXCEPT !.pc = "L46"]
                 ELSE [@ EXCEPT !.pc = "L73", !.error = ScriptNotFound(job[c].scriptId)]]
    /\ UNCHANGED <<rt, svc, snapshots, videos, run, scripts, env, call>>

\* DatabaseService.updateScriptStatus (lines 256-265): the Map after the call
updateScriptStatus(map, id, status) == [map EXCEPT ![id].status = status]

\* DatabaseService.updateScriptVideoUrl (lines 273-282): the Map after the call
updateScriptVideoUrl(map, id, videoUrl) == [map EXCEPT ![id].videoUrl = videoUrl]

\* a call this.dbService.updateScriptStatus(scriptId, status) at position `at`
\* of the try block: it throws when the script is not found (lines 258-260)
JobUpdateStatus(c, at, status, next) ==
    /\ job[c].pc = at
    /\ IF getScript(scripts, job[c].scriptId).exists
       THEN /\ scripts' = updateScriptStatus(scripts, job[c].scriptId, status)
            /\ job' = [job EXCEPT ![c].pc = next]
       ELSE /\ UNCHANGED scripts
            /\ job' = [job EXCEPT ![c].pc = "L73",
                                  ![c].error = ScriptNotFound(job[c].scriptId)]
    /\ UNCHANGED <<rt, svc, snapshots, videos, run, env, call>>

\* a call onProgress?.(progress) at position `at` of the try block
JobProgress(c, at, step, status, next) ==
    /\ job[c].pc = at
    /\ IF ~job[c].attached
       THEN job' = [job EXCEPT ![c].pc = next]
       ELSE \/ job' = [job EXCEPT ![c].pc = next,
                                  ![c].events = Append(@, <<step, status>>)]
            \/ job' = [job EXCEPT ![c].pc = "L73", ![c].error = ObserverError,
                                  ![c].events = Append(@, <<step, status>>)]
    /\ UNCHANGED <<rt, svc, snapshots, videos, run, scripts, env, call>>

\* line 46
JobSetProcessing(c) == JobUpdateStatus(c, "L46", "processing", "L47")

\* line 47
JobProgressTts(c) == JobProgress(c, "L47", "tts", "processing", "L50")

\* line 50
JobProgressVideo(c) == JobProgress(c, "L50", "video", "processing", "L53")

\* lines 53-56: DIDVideoService.createVideoFromText (did-video.service.ts 21-52);
\* the id of the created talk is distinct for each call, here the caller's name
JobCreateVideo(c) ==
    /\ job[c].pc = "L53"
    /\ \/ job' = [job EXCEPT ![c].pc = "L59", ![c].talk = c, ![c].attempt = 0,
                             ![c].remote = @ + 1]
       \/ job' = [job EXCEPT ![c].pc = "L73", ![c].remote = @ + 1,
                    ![c].error = PlainError(<<"Video", "generation", "failed",
                                              "D-ID", "API", "error">>)]
    /\ UNCHANGED <<rt, svc, snapshots, videos, run, scripts, env, call>>

\* how DIDVideoService.getVideoStatus can settle (did-video.service.ts 98-116)
WaitResponses(talk) ==
    {StatusDocument("created", <<>>, FALSE),
     StatusDocument("processing", <<>>, FALSE),
     StatusDocument("done", <<"result_url", talk>>, FALSE),
     StatusDocument("done", <<>>, FALSE),
     StatusDocument("error", <<>>, FALSE),
     StatusDocument("rejected", <<>>, FALSE),
     [ok |-> FALSE, status |-> "none", result_url |-> <<>>, error |-> FALSE]}

\* (mutation of WaitAfterPoll: a done status ends the wait, result_url or not)
WaitAfterPoll_DoneWithoutUrl(j, response) ==
    IF ~response.ok
    THEN [j EXCEPT !.pc = "L73",
                   !.error = PlainError(<<"Failed", "to", "get", "video", "status">>)]
    ELSE IF response.status = "done"
    THEN [j EXCEPT !.pc = "L62", !.videoUrl = response.result_url]
    ELSE IF response.status = "error"
    THEN [j EXCEPT !.pc = "L73", !.error = PlainError(<<"Video", "generation", "failed">>)]
    ELSE IF j.attempt + 1 < waitMaxAttempts
    THEN [j EXCEPT !.attempt = @ + 1]
    ELSE [j EXCEPT !.attempt = @ + 1, !.pc = "L73",
                   !.error = PlainError(<<"Video", "generation", "timeout">>)]

\* DIDVideoService.waitForVideoCompletion (did-video.service.ts 125-147): one
\* iteration of its loop, given how getVideoStatus settled
WaitAfterPoll(j, response) ==
    IF ~response.ok
    THEN [j EXCEPT !.pc = "L73",
                   !.error = PlainError(<<"Failed", "to", "get", "video", "status">>)]
    ELSE IF response.status = "done" /\ response.result_url # <<>>
    THEN [j EXCEPT !.pc = "L62", !.videoUrl = response.result_url]
    ELSE IF response.status = "error"
    THEN [j EXCEPT !.pc = "L73", !.error = PlainError(<<"Video", "generation", "failed">>)]
    ELSE IF j.attempt + 1 < waitMaxAttempts
    THEN [j EXCEPT !.attempt = @ + 1]
    ELSE [j EXCEPT !.attempt = @ + 1, !.pc = "L73",
                   !.error = PlainError(<<"Video", "generation", "timeout">>)]

\* line 59
JobPoll(c) ==
    /\ job[c].pc = "L59"
    /\ \E response \in WaitResponses(job[c].talk) :
          job' = [job EXCEPT ![c] = WaitAfterPoll([@ EXCEPT !.remote = @ + 1,
                                                            !.last = Settled(response)],
                                                  response)]
    /\ UNCHANGED <<rt, svc, snapshots, videos, run, scripts, env, call>>

\* line 62
JobSaveVideoUrl(c) ==
    /\ job[c].pc = "L62"
    /\ IF getScript(scripts, job[c].scriptId).exists
       THEN /\ scripts' = updateScriptVideoUrl(scripts, job[c].scriptId, job[c].videoUrl)
            /\ job' = [job EXCEPT ![c].pc = "L63"]
       ELSE /\ UNCHANGED scripts
            /\ job' = [job EXCEPT ![c].pc = "L73",
                                  ![c].error = ScriptNotFound(job[c].scriptId)]
    /\ UNCHANGED <<rt, svc, snapshots, videos, run, env, call>>

\* line 63
JobSetCompleted(c) == JobUpdateStatus(c, "L63", "completed", "L65")

\* line 65
JobProgressComplete(c) == JobProgress(c, "L65", "complete", "completed", "L67")

\* lines 67-70
JobReturnSuccess(c) ==
    /\ job[c].pc = "L67"
    /\ job' = [job EXCEPT ![c].pc = "resolved",
                 ![c].result = [success |-> TRUE, videoUrl |-> job[c].videoUrl,
                                error |-> <<>>]]
    /\ UNCHANGED <<rt, svc, snapshots, videos, run, scripts, env, call>>

\* lines 71-73: the catch block updates the status to failed; when the script is
\* not found this call throws and generateVideo rejects
JobCatch(c) ==
    /\ job[c].pc = "L73"
    /\ IF getScript(scripts, job[c].scriptId).exists
       THEN /\ scripts' = updateScriptStatus(scripts, job[c].scriptId, "failed")
            /\ job' = [job EXCEPT ![c].pc = "L76"]
       ELSE /\ UNCHANGED scripts
            /\ job' = [job EXCEPT ![c].pc = "rejected",
                                  ![c].result = ScriptNotFound(job[c].scriptId)]
    /\ UNCHANGED <<rt, svc, snapshots, videos, run, env, call>>

\* lines 75-76: onProgress of the failure; when it throws generateVideo rejects
JobProgressFailed(c) ==
    /\ job[c].pc = "L76"
    /\ IF ~job[c].attached
       THEN job' = [job EXCEPT ![c].pc = "L78"]
       ELSE \/ job' = [job EXCEPT ![c].pc = "L78",
                                  ![c].events = Append(@, <<"complete", "failed">>)]
            \/ job' = [job EXCEPT ![c].pc = "rejected", ![c].result = ObserverError,
                                  ![c].events = Append(@, <<"complete", "failed">>)]
    /\ UNCHANGED <<rt, svc, snapshots, videos, run, scripts, env, call>>

\* lines 78-81
JobReturnFailure(c) ==
    /\ job[c].pc = "L78"
    /\ job' = [job EXCEPT ![c].pc = "resolved",
                 ![c].result = [success |-> FALSE, videoUrl |-> <<>>,
                                error |-> job[c].error.msg]]
    /\ UNCHANGED <<rt, svc, snapshots, videos, run, scripts, env, call>>

\* DatabaseService.deleteScript (lines 297-302 of videoGenerationService.ts),
\* called for a script that exists
DbDeleteScript(id) ==
    /\ scripts[id].exists
    /\ scripts' = [scripts EXCEPT ![id] = NoScript]
    /\ UNCHANGED <<rt, svc, snapshots, videos, run, job, env, call>>

Callers == {"a", "b"}

\* one script was created by createScript; two callers may run generateVideo
InitDb ==
    /\ scripts = [id \in {"s1"} |-> NewScript]
    /\ job = [c \in Callers |-> JobIdle]
    /\ rt = RtIdle
    /\ svc = SvcOff
    /\ snapshots = <<>>
    /\ videos = <<>>
    /\ run = <<>>
    /\ env = EnvAllSet
    /\ call = CallIdle

NextDb ==
    \/ \E c \in DOMAIN job : JobGenerateVideo(c)
    \/ \E c \in DOMAIN job : JobGetScript(c)
    \/ \E c \in DOMAIN job : JobSetProcessing(c)
    \/ \E c \in DOMAIN job : JobProgressTts(c)
    \/ \E c \in DOMAIN job : JobProgressVideo(c)
    \/ \E c \in DOMAIN job : JobCreateVideo(c)
    \/ \E c \in DOMAIN job : JobPoll(c)
    \/ \E c \in DOMAIN job : JobSaveVideoUrl(c)
    \/ \E c \in DOMAIN job : JobSetCompleted(c)
    \/ \E c \in DOMAIN job : JobProgressComplete(c)
    \/ \E c \in DOMAIN job : JobReturnSuccess(c)
    \/ \E c \in DOMAIN job : JobCatch(c)
    \/ \E c \in DOMAIN job : JobProgressFailed(c)
    \/ \E c \in DOMAIN job : JobReturnFailure(c)
    \/ \E id \in DOMAIN scripts : DbDeleteScript(id)

SpecDb == InitDb /\ [][NextDb]_vars

\* the two pipelines that persist a record: a run of either
InitRuns == InitAsync \/ InitDb

NextRuns == NextAsync \/ NextDb

SpecRuns == InitRuns /\ [][NextRuns]_vars

\* the service is constructed, with or without an onProgress callback
InitSync ==
    /\ \E attached \in BOOLEAN : svc = [SvcIdle EXCEPT !.attached = attached]
    /\ rt = RtIdle
    /\ snapshots = <<>>
    /\ videos = <<>>
    /\ run = <<>>
    /\ scripts = <<>>
    /\ job = <<>>
    /\ env = EnvAllSet
    /\ call = CallIdle

NextSync ==
    \/ SvcGenerateVideo
    \/ SvcProgressValidating
    \/ SvcValidate
    \/ SvcProgressAudio
    \/ SvcStartAudio
    \/ SvcCallOpenAI
    \/ SvcAudioSettled
    \/ SvcProgressVideo
    \/ SvcStartVideo
    \/ SvcCallDID
    \/ SvcVideoSettled
    \/ SvcProgressCompleted
    \/ SvcReturn
    \/ SvcCatch
    \/ RetrySleep

SpecSync == InitSync /\ [][NextSync]_vars

\* a run of the route or of the in-memory service, every step of which is
\* eventually taken: every remote call and every delay settles
InitSettling == InitAsync \/ InitSync

NextSettling == NextAsync \/ NextSync

SpecSettling == InitSettling /\ [][NextSettling]_vars /\ WF_vars(NextSettling)

\* a run of any of the three pipelines
InitPipelines == InitSync \/ InitAsync \/ InitDb

NextPipelines == NextSync \/ NextAsync \/ NextDb

SpecPipelines == InitPipelines /\ [][NextPipelines]_vars

(***************************************************************************)
(* Properties of withRetry (SpecRetry).                                    *)
(***************************************************************************)
\* the invocations of fn made so far by the running withRetry call
RtInvocations == Len(rt.calls)

\* "an error that is a VideoGenerationError with retryable = false"
ClassifiedPermanent(e) == e.cls = "VGE" /\ e.retryable = FALSE

\* every invocation so far rejected, none with a permanent classified error
RtAllRejectedRetryable ==
    \A i \in 1 .. RtInvocations :
        ~rt.calls[i].ok /\ ~ClassifiedPermanent(rt.calls[i].err)

\* C2: withRetry(f, config) with maxRetries = N >= 0, every invocation of f
\* rejecting with an error that is not a VideoGenerationError with
\* retryable = false: f is invoked exactly N + 1 times (4 with the defaults) and
\* withRetry rejects with the error of the last invocation. Stated on every
\* state: while all invocations so far were such rejections, at most N + 1 were
\* made, withRetry has rejected exactly when N + 1 were made, and then with the
\* last one's error.
C2_ExhaustedAfterNPlus1 ==
    (rt.op = "fn" /\ rt.config.maxRetries >= 0 /\ RtAllRejectedRetryable) =>
        /\ RtInvocations <= rt.config.maxRetries + 1
        /\ rt.pc # "resolved"
        /\ (rt.pc = "rejected") <=> (RtInvocations = rt.config.maxRetries + 1)
        /\ rt.pc = "rejected" =>
              /\ rt.thrown = rt.calls[RtInvocations].err
              /\ rt.config = DEFAULT_RETRY_CONFIG => RtInvocations = 4

\* C2 witness: the default configuration, four rejected invocations, the last
\* error different from the one before it, and withRetry rejected
C2_Witness ==
    /\ rt.op = "fn" /\ rt.pc = "rejected"
    /\ rt.config = DEFAULT_RETRY_CONFIG
    /\ RtAllRejectedRetryable
    /\ RtInvocations = 4
    /\ rt.calls[4].err # rt.calls[3].err
    /\ rt.thrown = rt.calls[4].err

\* C3: as soon as an invocation of f rejects with a VideoGenerationError whose
\* retryable flag is false, withRetry rejects with that same error, without
\* waiting and without invoking f again; on the first invocation this makes
\* exactly one invocation, whatever maxRetries is.
C3_PermanentErrorStopsAtOnce ==
    \A i \in 1 .. RtInvocations :
        (rt.op = "fn" /\ ~rt.calls[i].ok /\ ClassifiedPermanent(rt.calls[i].err)) =>
            /\ i = RtInvocations
            /\ rt.pc = "rejected"
            /\ rt.thrown = rt.calls[i].err
            /\ \A k \in 1 .. Len(rt.sleeps) : rt.sleeps[k].after < i
            /\ Len(rt.sleeps) = i - 1

\* C3 witness: the first invocation rejected with a permanent classified error
\* under the largest retry budget, and withRetry rejected after that one call
C3_Witness ==
    /\ rt.op = "fn" /\ rt.pc = "rejected"
    /\ rt.config.maxRetries = MaxRetriesBound
    /\ RtInvocations = 1
    /\ ClassifiedPermanent(rt.calls[1].err)
    /\ rt.sleeps = <<>>

\* C4: f rejects with retryable errors on its first k invocations
\* (0 <= k <= maxRetries) and then resolves with v: withRetry resolves with
\* exactly v and f is invoked exactly k + 1 times. Stated on every state: a
\* fulfilled invocation is the last one, all before it were rejections,
\* withRetry has resolved with its value; and after k <= maxRetries retryable
\* rejections withRetry has not given up, so the (k+1)-th invocation is made.
C4_ResolvesWithFirstSuccess ==
    /\ \A i \in 1 .. RtInvocations :
          (rt.op = "fn" /\ rt.calls[i].ok) =>
              /\ i = RtInvocations
              /\ i <= rt.config.maxRetries + 1
              /\ \A j \in 1 .. i - 1 : ~rt.calls[j].ok
              /\ rt.pc = "resolved"
              /\ rt.result = rt.calls[i].val
    /\ (rt.op = "fn" /\ RtAllRejectedRetryable
            /\ RtInvocations <= rt.config.maxRetries) =>
          rt.pc \in {"call", "sleep"}
    /\ rt.pc = "resolved" => (RtInvocations >= 1 /\ rt.calls[RtInvocations].ok)

\* C4 witness: one rejection, then a success, under the default configuration
C4_Witness ==
    /\ rt.op = "fn" /\ rt.pc = "resolved"
    /\ rt.config = DEFAULT_RETRY_CONFIG
    /\ RtInvocations = 2
    /\ ~rt.calls[1].ok /\ rt.calls[2].ok
    /\ rt.result = "success"

(***************************************************************************)
(* Properties of VideoGenerationService.generateVideo(script) (SpecSync).  *)
(***************************************************************************)
SnapshotSteps == [i \in 1 .. Len(snapshots) |-> snapshots[i].currentStep]

SnapshotPercents == [i \in 1 .. Len(snapshots) |-> snapshots[i].progress]

\* the order VALIDATING < GENERATING_AUDIO < GENERATING_VIDEO < COMPLETED
StepRank(step) ==
    CASE step = "VALIDATING"       -> 1
      [] step = "GENERATING_AUDIO" -> 2
      [] step = "GENERATING_VIDEO" -> 3
      [] step = "COMPLETED"        -> 4
      [] step = "ERROR"            -> 5

\* C5: for a successful run of generateVideo(script) with an observer attached,
\* the observer receives exactly four snapshots, in this order: VALIDATING (10),
\* GENERATING_AUDIO (30), GENERATING_VIDEO (70), COMPLETED (100), no step
\* repeated, skipped or out of order.
C5_SuccessfulRunSnapshots ==
    (svc.pc = "resolved" /\ svc.attached) =>
        /\ SnapshotSteps =
              <<"VALIDATING", "GENERATING_AUDIO", "GENERATING_VIDEO", "COMPLETED">>
        /\ SnapshotPercents = <<10, 30, 70, 100>>

\* C5 witness: a successful run with an observer attached in which both phases
\* were retried by withRetry
C5_Witness ==
    /\ svc.pc = "resolved" /\ svc.attached
    /\ Len(snapshots) = 4
    /\ Len(SelectSeq(svc.remote, LAMBDA c : c = "openai")) >= 2
    /\ Len(SelectSeq(svc.remote, LAMBDA c : c = "did")) >= 2

\* C6: for every run of generateVideo, whatever the outcomes of validation,
\* synthesis, video generation and of the observer callback itself, the
\* snapshots delivered are strictly increasing in the order VALIDATING <
\* GENERATING_AUDIO < GENERATING_VIDEO < COMPLETED, except for at most one
\* final ERROR snapshot emitted only from a non-terminal step; no snapshot is
\* emitted after COMPLETED or after ERROR.
C6_SnapshotsMonotonicErrorLast ==
    \A i \in 1 .. Len(snapshots) :
        /\ \A j \in 1 .. i - 1 :
              StepRank(snapshots[j].currentStep) < StepRank(snapshots[i].currentStep)
        /\ snapshots[i].currentStep \in {"COMPLETED", "ERROR"} => i = Len(snapshots)

(***************************************************************************)
(* Properties of the generate-video route (SpecAsync).                     *)
(***************************************************************************)
\* the presenter images handed to generateLipSyncVideo so far, in order
AttemptedImages(v) ==
    [i \in 1 .. Len(run[v].tries) |-> run[v].tries[i].image]
        \o (IF run[v].lip.pc = "idle" THEN <<>> ELSE <<run[v].lip.avatar>>)

\* the configured order: the first image, then the fallbacks as listed
ConfiguredOrder(v) == <<FirstAvatar(run[v].avatarUrl)>> \o DID_AVATAR_CONFIG.fallbacks

IsPrefix(a, b) == Len(a) <= Len(b) /\ \A i \in 1 .. Len(a) : a[i] = b[i]

\* the value of the record's avatarUsed column, "none" when it has none
PersistedAvatarUsed(v) ==
    IF "avatar_used" \in DOMAIN videos[v] THEN videos[v]["avatar_used"] ELSE "none"

\* C7: for every script that fails validation (in particular the empty
\* string), generation goes VALIDATING -> ERROR: the speech synthesis client and
\* the avatar video client are never invoked, the persisted status is failed,
\* and the error message is the validator's joined errors. Stated for the
\* generation started by POST /api/generate-video.
C7_InvalidScriptFailsBeforeSynthesis ==
    \A v \in DOMAIN run :
        (run[v].pc # "none" /\ ~validateScript(run[v].content).isValid) =>
            /\ run[v].tts = 0
            /\ AttemptedImages(v) = <<>>
            /\ run[v].pc = "done" =>
                  /\ videos[v].status = "failed"
                  /\ videos[v].error_message =
                        JoinWithSpace(validateScript(run[v].content).errors)

\* C8: when the first image fails with a retryable error, the first fallback
\* fails and the second fallback succeeds, the run ends with status completed
\* and the persisted avatarUsed equals the second fallback URL; in general, on
\* completion the persisted avatarUsed is the presenter image of the attempt
\* that succeeded.
C8_AvatarUsedPersisted ==
    \A v \in DOMAIN run :
        (run[v].pc = "done" /\ run[v].tries # <<>>
            /\ run[v].tries[Len(run[v].tries)].outcome = "ok") =>
            /\ videos[v].status = "completed"
            /\ PersistedAvatarUsed(v) = run[v].tries[Len(run[v].tries)].image

\* C9: after a retryable failure of the first attempt, the fallback presenter
\* images are attempted in exactly the configured list order, one full
\* create-and-poll sequence at a time, and no further image is attempted after
\* the first attempt that succeeds.
C9_FallbacksInConfiguredOrder ==
    \A v \in DOMAIN run :
        /\ IsPrefix(AttemptedImages(v), ConfiguredOrder(v))
        /\ \A i \in 1 .. Len(run[v].tries) :
              run[v].tries[i].outcome = "ok" =>
                  /\ i = Len(run[v].tries)
                  /\ run[v].lip.pc = "idle"
        /\ Len(AttemptedImages(v)) >= 2 => run[v].tries[1].outcome = "retryable"
        /\ (Len(run[v].tries) >= 1 /\ run[v].tries[1].outcome = "retryable"
              /\ run[v].pc # "L489") =>
              Len(AttemptedImages(v)) >= 2 \/ run[v].pc = "L504"

\* C9 witness: the first image failed with a retryable error, the first
\* fallback failed and the second fallback succeeded
C9_Witness ==
    \E v \in DOMAIN run :
        /\ run[v].pc = "done"
        /\ AttemptedImages(v) = <<"alice.jpg", "amy.jpg", "anna.jpg">>
        /\ run[v].tries[1].outcome = "retryable"
        /\ run[v].tries[2].outcome # "ok"
        /\ run[v].tries[3].outcome = "ok"
        /\ videos[v].status = "completed"

\* the message of the test of the fallback behaviour ('All avatars failed')
MsgAllAvatarsFailed == <<"All", "avatars", "failed">>

\* C10: when the primary presenter image and every fallback image fail,
\* generation ends with a final error whose message indicates that all avatars
\* failed (exhaustion), not merely the message of one individual attempt, and
\* this outcome is terminal.
C10_ExhaustionMessage ==
    \A v \in DOMAIN run :
        (run[v].pc = "done"
            /\ Len(run[v].tries) = 1 + Len(DID_AVATAR_CONFIG.fallbacks)
            /\ \A i \in 1 .. Len(run[v].tries) : run[v].tries[i].outcome # "ok") =>
            /\ videos[v].status = "failed"
            /\ videos[v].error_message = MsgAllAvatarsFailed
            /\ run[v].lip.pc = "idle"

(***************************************************************************)
(* Properties of the persisted status.                                     *)
(***************************************************************************)
\* the only changes of a status: pending -> processing -> completed | failed
AllowedStatusChange(old, new) ==
    \/ old = new
    \/ old = "pending" /\ new = "processing"
    \/ old = "processing" /\ new \in {"completed", "failed"}

\* C1: for every record, across any sequence of generation runs and gateway
\* updates, including repeated or overlapping runs on the same record, the
\* persisted status only ever changes pending -> processing, processing ->
\* completed or processing -> failed: it never moves backward and never leaves
\* completed or failed.
C1_StatusOnlyMovesForward ==
    [][/\ \A id \in DOMAIN scripts :
             (scripts[id].exists /\ scripts'[id].exists) =>
                 AllowedStatusChange(scripts[id].status, scripts'[id].status)
       /\ \A v \in DOMAIN videos :
             (videos[v].exists /\ videos'[v].exists) =>
                 AllowedStatusChange(videos[v].status, videos'[v].status)]_vars

(***************************************************************************)
(* Properties of the persisted record of a run.                            *)
(***************************************************************************)
\* the callers whose generateVideo has been called on script id
RunsOn(id) == {c \in DOMAIN job : job[c].pc # "idle" /\ job[c].scriptId = id}

\* C11: in every reachable state of a record written by a generation run
\* (generateVideoAsync, generateVideo(scriptId)), status = failed implies that
\* no videoUrl has been persisted for that run. Stated for records written by
\* one run only.
C11_FailedHasNoVideoUrl ==
    /\ \A v \in DOMAIN videos :
          (videos[v].exists /\ videos[v].status = "failed") => videos[v].video_url = <<>>
    /\ \A id \in DOMAIN scripts :
          (scripts[id].exists /\ scripts[id].status = "failed"
              /\ Cardinality(RunsOn(id)) = 1) => scripts[id].videoUrl = <<>>

\* the URLs returned by the video jobs of the runs on script id that succeeded
JobUrlsOn(id) ==
    {job[c].videoUrl : c \in {d \in RunsOn(id) : job[d].videoUrl # <<>>}}

BackgroundRunFailed(v) == run[v].pc = "done" /\ run[v].error # NoError

\* C13: generateVideoAsync (the background path started by POST
\* /api/generate-video) never rejects to its caller: for every failure of
\* synthesis, job creation, polling or fallback it resolves after persisting
\* status = failed together with the error message on the video record.
C13_BackgroundFailurePersisted ==
    \A v \in DOMAIN run :
        /\ run[v].pc # "rejected"
        /\ BackgroundRunFailed(v) =>
              /\ videos[v].status = "failed"
              /\ videos[v].error_message # <<>>
              /\ videos[v].error_message = FailureMessage(run[v].error)

\* the number of ERROR snapshots delivered
ErrorSnapshots == Cardinality({i \in 1 .. Len(snapshots) : snapshots[i].currentStep = "ERROR"})

\* C14: in generateVideo(script), every failure (validation, synthesis, video)
\* causes exactly one ERROR snapshot carrying the error message to be emitted,
\* and only afterwards the call rejects with the very same classified
\* VideoGenerationError that caused the failure.
C14_ErrorSnapshotThenSameError ==
    (svc.pc = "rejected" /\ svc.attached /\ IsVGE(svc.caught)) =>
        /\ ErrorSnapshots = 1
        /\ snapshots[Len(snapshots)].currentStep = "ERROR"
        /\ snapshots[Len(snapshots)].error = svc.caught.msg
        /\ svc.error = svc.caught

(***************************************************************************)
(* Properties of termination.                                              *)
(***************************************************************************)
SvcSettled == svc.pc \in {"resolved", "rejected"}

SvcRunning == svc.pc \notin {"off", "idle", "resolved", "rejected"}

\* the number of COMPLETED and ERROR snapshots delivered
TerminalSnapshots ==
    Cardinality({i \in 1 .. Len(snapshots) :
                    snapshots[i].currentStep \in {"COMPLETED", "ERROR"}})

\* C15: assuming every remote call and every delay eventually settles, every
\* generation run that has begun eventually reaches exactly one terminal
\* outcome (persisted completed or failed; COMPLETED or ERROR snapshot) and
\* performs no further remote call or status write afterwards.
C15_RunsReachOneTerminalOutcome ==
    /\ \A v \in VideoIds :
          (v \in DOMAIN run /\ run[v].pc \notin {"none", "done"})
              ~> (v \in DOMAIN run /\ run[v].pc = "done")
    /\ SvcRunning ~> SvcSettled
    /\ [](\A v \in DOMAIN run :
             run[v].pc = "done" => videos[v].status \in {"completed", "failed"})
    /\ []((SvcSettled /\ svc.attached) => TerminalSnapshots = 1)
    /\ [][/\ \A v \in DOMAIN run :
               run[v].pc = "done" => (run'[v] = run[v] /\ videos'[v] = videos[v])
          /\ SvcSettled => UNCHANGED <<svc, snapshots, rt>>]_vars

(***************************************************************************)
(* Properties of the observer.                                             *)
(***************************************************************************)
RemoteCalls(api) == Len(SelectSeq(svc.remote, LAMBDA c : c = api))

\* what a settled run of generateVideo(script) without an observer shows, as
\* a function of the script and of the outcomes of the remote calls: it
\* resolves when the video phase resolved, it rejects with the classified error
\* of the phase that failed, synthesis was invoked when the script is valid and
\* the video API when synthesis resolved
UnobservedOutcome ==
    /\ svc.pc = "rejected" => IsVGE(svc.error)
    /\ svc.videoUrl # "none" => svc.pc = "resolved"
    /\ validateScript(svc.script).isValid => RemoteCalls("openai") >= 1
    /\ svc.audioUrl # "none" => RemoteCalls("did") >= 1

\* C16: for the same script and the same outcomes of every remote call,
\* generateVideo(script) produces the same result (returned value or thrown
\* error) and the same sequence of remote calls whether or not an onProgress
\* observer is attached, and whatever the observer does: a settled run with an
\* observer shows what the run without one shows.
C16_ObserverHasNoEffect == SvcSettled => UnobservedOutcome

(***************************************************************************)
(* Properties of the phases.                                               *)
(***************************************************************************)
SnapshotsOf(step) ==
    Cardinality({i \in 1 .. Len(snapshots) : snapshots[i].currentStep = step})

\* C17: in generateVideo(script), retries performed by withRetry inside a
\* phase emit no snapshot: for any number of failed-then-retried synthesis or
\* video attempts, GENERATING_AUDIO and GENERATING_VIDEO are each delivered at
\* most once per run.
C17_RetriesEmitNoSnapshot ==
    /\ [](SnapshotsOf("GENERATING_AUDIO") <= 1 /\ SnapshotsOf("GENERATING_VIDEO") <= 1)
    /\ [][rt' # rt => snapshots' = snapshots]_vars

\* a run with an observer whose synthesis was invoked four times and whose
\* video generation was retried too
C17_Witness ==
    /\ svc.attached /\ svc.pc = "rejected"
    /\ RemoteCalls("openai") = 1 + DEFAULT_RETRY_CONFIG.maxRetries
    /\ SnapshotsOf("GENERATING_AUDIO") = 1
    /\ SnapshotsOf("GENERATING_VIDEO") = 0

\* C18: in every generation run the phases are strictly sequential: speech
\* synthesis is never invoked before validation has passed, and no avatar video
\* job is created before speech synthesis has resolved successfully; a run
\* whose synthesis fails never creates a video job.
C18_PhasesSequential ==
    /\ RemoteCalls("openai") >= 1 => validateScript(svc.script).isValid
    /\ RemoteCalls("did") >= 1 => svc.audioUrl # "none"
    /\ \A v \in DOMAIN run :
          /\ run[v].tts >= 1 => validateScript(run[v].content).isValid
          /\ (run[v].lip.pc # "idle" \/ run[v].tries # <<>>) => run[v].audio # "none"
    /\ \A c \in DOMAIN job : job[c].remote >= 1 => job[c].tts >= 1

(***************************************************************************)
(* Properties of the wait for a video job.                                 *)
(***************************************************************************)
JobFailedRemotely(last) == last \in {"error", "rejected"}

\* C19: while waiting for a video job (generateLipSyncVideo polling loop,
\* DIDVideoService.waitForVideoCompletion), the first status poll that reports
\* error or rejected ends the wait immediately with a non-retryable DID_ERROR:
\* no further status poll is made for that job and, in generateVideoAsync, no
\* fallback image is attempted.
C19_RemoteFailureEndsWait ==
    /\ [](\A v \in DOMAIN run :
             JobFailedRemotely(run[v].lip.last) =>
                 /\ run[v].lip.pc = "rejected"
                 /\ IsVGE(run[v].lip.thrown)
                 /\ run[v].lip.thrown.type = "DID_ERROR"
                 /\ ~run[v].lip.thrown.retryable)
    /\ [](\A c \in DOMAIN job :
             JobFailedRemotely(job[c].last) =>
                 job[c].pc # "L59" /\ job[c].error # NoError)
    /\ [][/\ \A v \in DOMAIN run :
               JobFailedRemotely(run[v].lip.last) =>
                   /\ run'[v].polls = run[v].polls
                   /\ run'[v].pc # "L504"
          /\ \A c \in DOMAIN job :
               JobFailedRemotely(job[c].last) => job'[c].remote = job[c].remote]_vars

\* the status polls made for the job under way of record v
PollsOfJob(v) == run[v].polls - SumPolls(run[v].tries)

RetryableDidError(e) == IsVGE(e) /\ e.type = "DID_ERROR" /\ e.retryable

\* the polling budget of generateLipSyncVideo is bounded, its exhaustion is a
\* retryable DID_ERROR that makes the next fallback image be attempted
LipSyncWaitBounded ==
    /\ [](\A v \in DOMAIN run :
             /\ run[v].lip.attempts <= maxAttempts
             /\ run[v].lip.pc # "idle" => PollsOfJob(v) <= maxAttempts
             /\ run[v].polls <= maxAttempts * (1 + Len(DID_AVATAR_CONFIG.fallbacks))
             /\ run[v].lip.attempts = maxAttempts =>
                   run[v].lip.pc = "rejected" /\ RetryableDidError(run[v].lip.thrown))
    /\ [][\A v \in DOMAIN run :
             (run[v].lip.attempts = maxAttempts /\ run'[v] # run[v]
                 /\ ~FallbacksExhausted(run[v].fallbackIndex)) =>
                 /\ run'[v].pc = "L504"
                 /\ run'[v].currentAvatar =
                       DID_AVATAR_CONFIG.fallbacks[run[v].fallbackIndex + 1]]_vars

\* C20: waiting for a video job makes at most maxAttempts status polls
\* whatever the remote answers, including polls that fail in transport; when
\* the budget is exhausted without a done status the wait ends with a
\* retryable DID_ERROR (timeout), which in generateVideoAsync makes the next
\* fallback image be attempted, so the total number of polls in a run is at
\* most maxAttempts x (1 + number of fallbacks).
C20_PollBudget ==
    /\ LipSyncWaitBounded
    /\ [](\A c \in DOMAIN job :
             /\ job[c].attempt <= waitMaxAttempts
             /\ job[c].attempt = waitMaxAttempts =>
                   job[c].pc # "L59" /\ RetryableDidError(job[c].error))

(***************************************************************************)
(* Properties of the validator.                                            *)
(***************************************************************************)
Validated == call.pc \in {"validated", "checked"}

\* C21: for every script whose trimmed length is between 10 and 5000 inclusive
\* (whatever leading or trailing whitespace it carries), validateScript returns
\* isValid = true with an empty error list.
C21_TrimmedLengthInRangeIsValid ==
    (Validated /\ TrimLength(call.script) >= 10 /\ TrimLength(call.script) <= 5000) =>
        call.result.isValid /\ call.result.errors = <<>>

\* C21 as amended: for every script whose trimmed length is at least 10 and
\* whose raw length, whitespace included, is at most 5000, validateScript
\* returns isValid = true with an empty error list.
C21_RawLengthInRangeIsValid ==
    (Validated /\ TrimLength(call.script) >= 10 /\ ScriptLength(call.script) <= 5000) =>
        call.result.isValid /\ call.result.errors = <<>>

\* a script of 10 characters between leading and trailing whitespace was validated
C21_Witness ==
    /\ Validated
    /\ TrimLength(call.script) = 10
    /\ call.script.lead > 0 /\ call.script.trail > 0
    /\ call.result.isValid

\* the messages of a list of at most two errors with one space between them
SpaceSeparated(errors) ==
    IF Len(errors) = 0 THEN <<>>
    ELSE IF Len(errors) = 1 THEN errors[1]
    ELSE errors[1] \o <<" ">> \o errors[2]

\* C22: validateScriptOrThrow(script) throws if and only if validateScript(script)
\* is not valid; what it throws is a VideoGenerationError of type
\* VALIDATION_ERROR, not retryable, whose message is the validator's error
\* messages joined by a single space; otherwise it returns, and in either case
\* it changes nothing.
C22_ThrowsIffInvalid ==
    [][call.pc = "validated" =>
         /\ (call'.thrown # NoError) <=> ~call.result.isValid
         /\ call'.thrown # NoError =>
              /\ IsVGE(call'.thrown)
              /\ call'.thrown.type = "VALIDATION_ERROR"
              /\ call'.thrown.retryable = FALSE
              /\ Len(call.result.errors) <= 2
              /\ call'.thrown.msg = SpaceSeparated(call.result.errors)
         /\ call'.script = call.script /\ call'.result = call.result
         /\ UNCHANGED <<rt, svc, snapshots, videos, run, scripts, job, env>>]_vars

\* validateScriptOrThrow threw for a script with two errors
C22_Witness ==
    /\ call.pc = "checked"
    /\ Len(call.result.errors) = 2
    /\ call.thrown.type = "VALIDATION_ERROR"

\* C23: the retryable flag that createApiError / isRetryableError give a failed
\* remote call is false for CREDIT_INSUFFICIENT and VALIDATION_ERROR and true
\* for every other kind, so that an ordinary synthesis or video failure is
\* retried by withRetry up to its budget: a run of generateVideo that ends on
\* such a failure has invoked the failing operation 1 + maxRetries times.
C23_OrdinaryFailuresRetryable ==
    /\ \A i \in 1 .. Len(rt.calls) :
          (svc.pc # "off" /\ ~rt.calls[i].ok /\ IsVGE(rt.calls[i].err)) =>
              (rt.calls[i].err.retryable <=>
                   rt.calls[i].err.type \notin {"CREDIT_INSUFFICIENT", "VALIDATION_ERROR"})
    /\ (svc.pc = "rejected" /\ svc.caught.type = "OPENAI_ERROR") =>
          RemoteCalls("openai") = 1 + DEFAULT_RETRY_CONFIG.maxRetries

\* C24: when the record of a run does not exist (unknown id, or deleted while
\* the run is in progress), the run treats it as fatal and ends in a failure
\* outcome reported through its normal failure channel: generateVideo(scriptId)
\* resolves with success = false and the not-found message; it makes no remote
\* call and no retry after detecting it.
C24_NotFoundResolvesAsFailure ==
    /\ [](\A c \in DOMAIN job :
            (job[c].error = ScriptNotFound(job[c].scriptId)
                /\ job[c].pc \in {"resolved", "rejected"}) =>
                    /\ job[c].pc = "resolved"
                    /\ job[c].result.success = FALSE
                    /\ job[c].result.error = ScriptNotFound(job[c].scriptId).msg)
    /\ [][\A c \in DOMAIN job :
             job[c].error = ScriptNotFound(job[c].scriptId) =>
                 job'[c].remote = job[c].remote]_vars

(***************************************************************************)
(* Properties of concurrent runs.                                          *)
(***************************************************************************)
\* the record a finished run of generateVideoAsync leaves, from what the run
\* itself was given and was answered
RecordOfRun(r) ==
    IF r.videoUrl # <<>>
    THEN [NewVideoRecord EXCEPT !.status = "completed", !.video_url = r.videoUrl,
                                !.duration = EstimatedDuration(r.content)]
    ELSE [NewVideoRecord EXCEPT !.status = "failed",
                                !.error_message = FailureMessage(r.error)]

\* C25: for two generation runs on different records executing concurrently,
\* under every interleaving of their suspension points, each run writes only
\* its own record, and each record's final status, videoUrl and errorMessage
\* are those the same run produces when executed alone with the same remote
\* outcomes.
C25_ConcurrentRunsIndependent ==
    /\ [](\A v \in DOMAIN run : run[v].pc = "done" => videos[v] = RecordOfRun(run[v]))
    /\ [][\A v \in DOMAIN videos :
             videos'[v] # videos[v] =>
                 /\ run'[v] # run[v]
                 /\ \A w \in DOMAIN videos \ {v} :
                       videos'[w] = videos[w] /\ run'[w] = run[w]]_vars

\* of two runs under way at once, one completed on a fallback image and the
\* other failed
C25_Witness ==
    /\ DOMAIN run = {"v1", "v2"}
    /\ run["v1"].pc = "done" /\ run["v2"].pc = "done"
    /\ videos["v1"].status = "completed" /\ Len(run["v1"].tries) = 2
    /\ videos["v2"].status = "failed" /\ videos["v2"].error_message # <<>>

(***************************************************************************)
(* Properties of the waits of withRetry.                                   *)
(***************************************************************************)
\* C26: the wait of withRetry after failed attempt i (i < maxRetries, counted
\* from 0) is retryDelay * 2^i when exponentialBackoff is set (1000, 2000, 4000
\* ms with the defaults) and exactly retryDelay otherwise; there is no wait
\* after the last allowed attempt nor after a non-retryable failure.
C26_BackoffDelays ==
    /\ Len(rt.sleeps) <= Len(rt.calls)
    /\ \A k \in 1 .. Len(rt.sleeps) :
          /\ rt.sleeps[k].after = k
          /\ k - 1 < rt.config.maxRetries
          /\ ~rt.calls[k].ok /\ ~ClassifiedPermanent(rt.calls[k].err)
          /\ rt.sleeps[k].ms = IF rt.config.exponentialBackoff
                               THEN rt.config.retryDelay * 2^(k - 1)
                               ELSE rt.config.retryDelay
    /\ (rt.config = DEFAULT_RETRY_CONFIG /\ Len(rt.sleeps) = 3) =>
          <<rt.sleeps[1].ms, rt.sleeps[2].ms, rt.sleeps[3].ms>> = <<1000, 2000, 4000>>
    /\ (RtSettled(rt) /\ RtInvocations > 0) => Len(rt.sleeps) = RtInvocations - 1
    /\ (rt.pc = "call" /\ rt.op = "fn") => Len(rt.sleeps) = RtInvocations

\* withRetry with the default configuration waited three times and gave up
\* after the fourth attempt
C26_Witness ==
    /\ rt.config = DEFAULT_RETRY_CONFIG /\ rt.op = "fn"
    /\ rt.pc = "rejected"
    /\ Len(rt.sleeps) = 3 /\ RtInvocations = 4

\* C27: validateScript evaluates its three rules independently: for every
\* script whose trimmed length is below 10, the empty and the whitespace-only
\* script included, the error list contains the at-least-10-characters message,
\* next to the empty-content message when the trimmed length is 0 and the
\* too-long message when the raw length exceeds 5000.
C27_ShortScriptsGetMinLengthError ==
    Validated =>
        /\ TrimLength(call.script) < 10 =>
              \E i \in 1 .. Len(call.result.errors) : call.result.errors[i] = MsgTooShort
        /\ TrimLength(call.script) = 0 =>
              \E i \in 1 .. Len(call.result.errors) : call.result.errors[i] = MsgEmpty
        /\ ScriptLength(call.script) > 5000 =>
              \E i \in 1 .. Len(call.result.errors) :
                  call.result.errors[i] = MsgTooLong(ScriptLength(call.script))

(***************************************************************************)
(* Properties of the presenter-image attempts of generateVideoAsync.       *)
(***************************************************************************)
\* the attempts of a run that have begun: those that ended and the one decided
\* or under way
AttemptsBegun(r) ==
    Len(r.tries) + (IF r.pc = "L504" \/ (r.pc = "L489" /\ r.lip.pc # "idle") THEN 1 ELSE 0)

\* C28: in generateVideoAsync every presenter-image attempt other than the
\* first is started only if the immediately preceding attempt failed with a
\* retryable classified error: after an attempt (primary or fallback) that
\* fails with a non-retryable or unclassified error no further image is
\* attempted.
C28_NextImageOnlyAfterRetryable ==
    \A v \in DOMAIN run :
        \A k \in 2 .. AttemptsBegun(run[v]) :
            run[v].tries[k - 1].outcome = "retryable"

\* the create request of the attempt under way failed in transport with one of
\* the given HTTP statuses (0: no response was received)
CreateFailedWith(lip, statuses) ==
    /\ lip.pc = "rejected" /\ lip.last = "none"
    /\ \E st \in statuses : lip.thrown.msg = <<"D-ID", "API", "request", "failed">> \o AxiosError(st).msg

\* C29: a failure of the job-creation call to the avatar API caused by a
\* transient condition (timeout or no response, rate limit 429, any 5xx status)
\* is classified as a retryable DID_ERROR, and therefore triggers the fallback
\* images in generateVideoAsync; a client error is classified non-retryable.
C29_TransientCreateFailureRetryable ==
    \A v \in DOMAIN run :
        /\ CreateFailedWith(run[v].lip, {0, 429, 500, 503}) =>
              run[v].lip.thrown.type = "DID_ERROR" /\ run[v].lip.thrown.retryable
        /\ CreateFailedWith(run[v].lip, {400}) =>
              run[v].lip.thrown.type = "DID_ERROR" /\ ~run[v].lip.thrown.retryable

\* C30: within one run of generateVideoAsync the first attempt uses the
\* caller's avatarUrl when given and the configured primary image otherwise,
\* the number of attempts is at most 1 + the number of configured fallbacks,
\* and no presenter image is attempted more than once, also when the caller's
\* avatarUrl equals one of the configured fallback images.
C30_EachImageAttemptedOnce ==
    \A v \in DOMAIN run :
        LET images == AttemptedImages(v)
        IN  /\ Len(images) >= 1 =>
                  images[1] = IF run[v].avatarUrl \in {"undefined", ""}
                              THEN DID_AVATAR_CONFIG.primary
                              ELSE run[v].avatarUrl
            /\ Len(images) <= 1 + Len(DID_AVATAR_CONFIG.fallbacks)
            /\ \A i, j \in 1 .. Len(images) : i # j => images[i] # images[j]

====
